---- MODULE Spec2Model ----
(***************************************************************************)
(* Tool-augmented generation core of the RAG chatbot backend:              *)
(*   backend/search_tools.py  Tool, CourseSearchTool, ToolManager          *)
(*   backend/ai_generator.py  AIGenerator                                  *)
(* Python strings that the code builds by concatenation are sequences of   *)
(* tokens; Python lists are sequences; dicts with insertion order are      *)
(* sequences of [name, tool] entries.                                      *)
(***************************************************************************)
EXTENDS Integers, Sequences, FiniteSets, TLC

VARIABLES
    tools,          \* ToolManager.tools: ordered mapping name -> tool instance
    tm_mock_mode,   \* ToolManager.mock_mode
    gen_mock_mode,  \* AIGenerator.mock_mode
    last_sources,   \* tool instance -> its last_sources attribute
    srcBy,          \* history: the query (process) whose execution wrote last_sources, 0 = an earlier one
    afterReset,     \* history: "clean" since reset_sources, "registered" once a tool was registered after it, "no" once a tool executed
    regOrder,       \* history: the registered tool instances, in the order they were registered
    gen,            \* per caller: the generate_response activation
    lastOp,         \* the caller's last ToolManager call and how it ended
    api,            \* the query endpoint: sessions created, ids returned, the last request and its response
    race            \* per caller of a shared registry: its reset / retrieve / read sequence

vars == <<tools, tm_mock_mode, gen_mock_mode, last_sources, srcBy, afterReset, regOrder, gen, lastOp,
         api, race>>

\* ------------------------------------------------------------------ bounds
MaxBlocks == 3      \* content blocks in one model response
MaxHits == 2        \* documents in one search result
MaxSessions == 3    \* sessions the query endpoint creates

\* ------------------------------------------------------------ Python values
\* None where a string is expected, and where an int is expected
None == "None"
NoneInt == 0 - 1

\* Python truthiness: "not s" for an optional string, "not n" for an optional int
FalsyStr(v) == v = None \/ v = ""
FalsyInt(n) == n = NoneInt \/ n = 0

\* str(n) inside an f-string
Str(n) == CASE n = 0 -> "0" [] n = 1 -> "1" [] n = 2 -> "2" [] n = 3 -> "3"
            [] n = 4 -> "4" [] n = 5 -> "5" [] OTHER -> "n"

\* A Python str whose characters the code inspects (a query, a course name)
\* is a sequence of one-character strings; None in its place is NoneS.
NoneS == <<None>>
FalsyS(s) == s = NoneS \/ s = <<>>

LowerChar(c) ==
    CASE c = "A" -> "a" [] c = "C" -> "c" [] c = "G" -> "g" [] c = "L" -> "l"
      [] c = "M" -> "m" [] c = "O" -> "o" [] c = "P" -> "p" [] c = "R" -> "r"
      [] c = "W" -> "w" [] OTHER -> c

\* str.lower()
Lower(s) == [i \in DOMAIN s |-> LowerChar(s[i])]

\* sub in s
Contains(sub, s) ==
    \E k \in 0..(Len(s) - Len(sub)) : \A j \in 1..Len(sub) : s[k + j] = sub[j]

\* dict.get(key, default)
Get(d, key, default) == IF key \in DOMAIN d THEN d[key] ELSE default

RECURSIVE Join(_, _)
\* sep.join(parts) on token sequences
Join(parts, sep) ==
    IF parts = <<>> THEN <<>>
    ELSE IF Len(parts) = 1 THEN parts[1]
    ELSE parts[1] \o sep \o Join(Tail(parts), sep)

\* ------------------------------------------------------------ tool instances
\* cs: a CourseSearchTool object; plain: a Tool subclass declared under the
\* same name that keeps no sources; aux: a Tool subclass that keeps a
\* last_sources attribute; anon, blank: tools whose definition has no "name"
\* key, or an empty name.
SearchToolInstances == {"cs"}
Instances == {"cs", "plain", "aux", "anon", "blank"}

get_tool_definition(t) ==
    CASE t \in SearchToolInstances \cup {"plain"} -> [name |-> "search_course_content"]
      [] t = "aux" -> [name |-> "search_courses"]
      [] t = "anon" -> [description |-> "no name"]
      [] OTHER -> [name |-> ""]

\* hasattr(tool, 'last_sources'), hasattr(tool, 'mock_sources'), hasattr(tool, 'execute_mock')
HasLastSources(t) == t \in SearchToolInstances \cup {"aux"}
HasMockSources(t) == t \in SearchToolInstances
HasExecuteMock(t) == t \in SearchToolInstances

\* --------------------------------------------------------------- registry
Names(reg) == {reg[i].name : i \in DOMAIN reg}
IndexOf(reg, name) == CHOOSE i \in DOMAIN reg : reg[i].name = name
Lookup(reg, name) == reg[IndexOf(reg, name)].tool

\* dict.setdefault in place of the assignment: a taken name keeps its tool
DictSet_setdefault(reg, name, t) ==
    IF name \in Names(reg) THEN reg ELSE Append(reg, [name |-> name, tool |-> t])

DictSet_move_to_end(reg, name, t) ==
    Append(SelectSeq(reg, LAMBDA e : e.name # name), [name |-> name, tool |-> t])

\* self.tools[tool_name] = tool
DictSet(reg, name, t) ==
    IF name \in Names(reg)
    THEN [reg EXCEPT ![IndexOf(reg, name)] = [name |-> name, tool |-> t]]
    ELSE Append(reg, [name |-> name, tool |-> t])

register_tool_mut(reg, t) ==
    LET tool_name == Get(get_tool_definition(t), "name", None)
    IN  [tools |-> DictSet(reg, tool_name, t), raised |-> FalsyStr(tool_name)]

\* ToolManager.register_tool: the registry afterwards, and whether ValueError was raised
register_tool(reg, t) ==
    LET tool_name == Get(get_tool_definition(t), "name", None)
    IN  IF FalsyStr(tool_name)
        THEN [tools |-> reg, raised |-> TRUE]
        ELSE [tools |-> DictSet(reg, tool_name, t), raised |-> FALSE]

\* The registered instances in the order of their registration, after
\* register_tool(t): t comes last, unless it was registered under its name
\* already; the instance it replaces under that name is registered no more.
Registrations(order, reg, t) ==
    LET tool_name == Get(get_tool_definition(t), "name", None)
    IN  IF register_tool(reg, t).raised THEN order
        ELSE IF tool_name \in Names(reg) /\ Lookup(reg, tool_name) = t THEN order
        ELSE Append(SelectSeq(order, LAMBDA u : tool_name \notin Names(reg) \/ u # Lookup(reg, tool_name)), t)

\* ToolManager.get_tool_definitions
get_tool_definitions(reg) == [i \in DOMAIN reg |-> get_tool_definition(reg[i].tool)]

RECURSIVE FirstWithSources(_, _, _)
FirstWithSources(reg, ls, i) ==
    IF i > Len(reg) THEN <<>>
    ELSE IF HasLastSources(reg[i].tool) /\ ls[reg[i].tool] # <<>> THEN ls[reg[i].tool]
    ELSE FirstWithSources(reg, ls, i + 1)

RECURSIVE get_last_sources_merged(_, _)
get_last_sources_merged(reg, ls) ==
    IF reg = <<>> THEN <<>>
    ELSE (IF HasLastSources(reg[1].tool) THEN ls[reg[1].tool] ELSE <<>>)
         \o get_last_sources_merged(Tail(reg), ls)

\* ToolManager.get_last_sources
get_last_sources(reg, ls) == FirstWithSources(reg, ls, 1)

Registered(reg) == {reg[i].tool : i \in DOMAIN reg}

\* A reset that leaves every field as it is
reset_sources_keeps(reg, ls) == ls

reset_sources_first_only(reg, ls) ==
    [t \in DOMAIN ls |->
        IF \E i \in DOMAIN reg :
              /\ reg[i].tool = t /\ HasLastSources(t)
              /\ \A j \in 1..(i - 1) : ~HasLastSources(reg[j].tool)
        THEN <<>> ELSE ls[t]]

\* ToolManager.reset_sources: every tool's last_sources afterwards
reset_sources(reg, ls) ==
    [t \in DOMAIN ls |-> IF t \in Registered(reg) /\ HasLastSources(t) THEN <<>> ELSE ls[t]]

\* ------------------------------------------------------- search collaborator
\* The vector store's ranking of the corpus: a search returns a window of it.
\* A hit is a document with its metadata; the metadata of the last one has no
\* course_title and no lesson_number key.
Corpus == <<
    [doc |-> "d1", meta |-> [course_title |-> "Course 1", lesson_number |-> 1]],
    [doc |-> "d2", meta |-> [course_title |-> "Course 2"]],
    [doc |-> "d3", meta |-> [lesson_number |-> 0]],
    [doc |-> "d4", meta |-> [course_title |-> "Course 1", lesson_number |-> 0]],
    [doc |-> "d5", meta |-> [course_title |-> "Course 1", lesson_number |-> 2]] >>

Min(a, b) == IF a < b THEN a ELSE b

Window(from, n) == SubSeq(Corpus, from, from + n - 1)

HitLists ==
    UNION {{Window(from, n) : n \in 0..Min(MaxHits, Len(Corpus) + 1 - from)} :
             from \in 1..Len(Corpus)}

MakeResults(error, hits) ==
    [error |-> error,
     documents |-> [i \in DOMAIN hits |-> hits[i].doc],
     metadata |-> [i \in DOMAIN hits |-> hits[i].meta]]

\* SearchResults as self.store.search may return them: hits or none, or an
\* error (with or without documents beside it)
SearchResults ==
    {MakeResults(None, h) : h \in HitLists}
    \cup {MakeResults("Search error", <<>>), MakeResults("Search error", Window(1, 1))}

\* self.store.get_lesson_link(course_title, lesson_num)
get_lesson_link(course_title, lesson_num) ==
    CASE course_title = "Course 1" /\ lesson_num = 1 -> "https://example.com/c1/1"
      [] course_title = "Course 1" /\ lesson_num = 0 -> "https://example.com/c1/0"
      [] course_title = "Course 1" /\ lesson_num = 2 -> ""
      [] OTHER -> None

\* ----------------------------------------------------------- CourseSearchTool
\* zip(results.documents, results.metadata)
Zip(docs, metas) == [i \in 1..Min(Len(docs), Len(metas)) |-> [doc |-> docs[i], meta |-> metas[i]]]

\* The header of one hit, without its brackets: also the source's text
SourceText(meta) ==
    LET course_title == Get(meta, "course_title", "unknown")
        lesson_num == Get(meta, "lesson_number", NoneInt)
    IN  IF lesson_num # NoneInt
        THEN <<course_title, " - Lesson ", Str(lesson_num)>>
        ELSE <<course_title>>

Header(meta) == <<"[">> \o SourceText(meta) \o <<"]">>

LooksUpLink_titled(meta) == Get(meta, "course_title", "unknown") # "unknown"

\* Whether _format_results calls self.store.get_lesson_link for a hit
LooksUpLink(meta) ==
    Get(meta, "lesson_number", NoneInt) # NoneInt /\ Get(meta, "course_title", "unknown") # "unknown"

SourceData_truthy_lesson(meta) ==
    LET course_title == Get(meta, "course_title", "unknown")
        lesson_num == Get(meta, "lesson_number", NoneInt)
        lesson_link == get_lesson_link(course_title, lesson_num)
    IN  [text |-> SourceText(meta),
         url |-> IF ~FalsyInt(lesson_num) /\ course_title # "unknown" /\ ~FalsyStr(lesson_link)
                 THEN lesson_link ELSE None]

SourceData(meta) ==
    LET course_title == Get(meta, "course_title", "unknown")
        lesson_num == Get(meta, "lesson_number", NoneInt)
        lesson_link == get_lesson_link(course_title, lesson_num)
    IN  [text |-> SourceText(meta),
         url |-> IF LooksUpLink(meta) /\ ~FalsyStr(lesson_link) THEN lesson_link ELSE None]

format_results_reversed(results) ==
    LET pairs == Zip(results.documents, results.metadata)
    IN  [text |-> Join([i \in DOMAIN pairs |-> Header(pairs[i].meta) \o <<"\n", pairs[i].doc>>], <<"\n\n">>),
         sources |-> [i \in DOMAIN pairs |-> SourceData(pairs[Len(pairs) + 1 - i].meta)],
         lookups |-> {i \in DOMAIN pairs : LooksUpLink(pairs[i].meta)}]

\* CourseSearchTool._format_results: the text returned, the list stored in
\* last_sources and the hits it calls self.store.get_lesson_link for
format_results(results) ==
    LET pairs == Zip(results.documents, results.metadata)
    IN  [text |-> Join([i \in DOMAIN pairs |-> Header(pairs[i].meta) \o <<"\n", pairs[i].doc>>], <<"\n\n">>),
         sources |-> [i \in DOMAIN pairs |-> SourceData(pairs[i].meta)],
         lookups |-> {i \in DOMAIN pairs : LooksUpLink(pairs[i].meta)}]

\* The "no content found" message of execute
NoContentMessage(course_name, lesson_number) ==
    <<"No relevant content found">>
    \o (IF ~FalsyS(course_name) THEN <<" in course '", course_name, "'">> ELSE <<>>)
    \o (IF ~FalsyInt(lesson_number) THEN <<" in lesson ", Str(lesson_number)>> ELSE <<>>)
    \o <<".">>

\* An execute that empties last_sources when it has nothing to format
execute_clears_on_miss(kwargs, results, old_sources) ==
    IF ~FalsyStr(results.error)
    THEN [result |-> <<results.error>>, last_sources |-> <<>>]
    ELSE IF results.documents = <<>>
    THEN [result |-> NoContentMessage(Get(kwargs, "course_name", NoneS),
                                      Get(kwargs, "lesson_number", NoneInt)),
          last_sources |-> <<>>]
    ELSE [result |-> format_results(results).text,
          last_sources |-> format_results(results).sources]

execute_format_first(kwargs, results, old_sources) ==
    LET formatted == format_results(results)
        sources == IF results.documents # <<>> THEN formatted.sources ELSE old_sources
    IN  IF ~FalsyStr(results.error)
        THEN [result |-> <<results.error>>, last_sources |-> sources]
        ELSE IF results.documents = <<>>
        THEN [result |-> NoContentMessage(Get(kwargs, "course_name", NoneS),
                                          Get(kwargs, "lesson_number", NoneInt)),
              last_sources |-> old_sources]
        ELSE [result |-> formatted.text, last_sources |-> sources]

execute_accumulate(kwargs, results, old_sources) ==
    IF ~FalsyStr(results.error)
    THEN [result |-> <<results.error>>, last_sources |-> old_sources]
    ELSE IF results.documents = <<>>
    THEN [result |-> NoContentMessage(Get(kwargs, "course_name", NoneS),
                                      Get(kwargs, "lesson_number", NoneInt)),
          last_sources |-> old_sources]
    ELSE [result |-> format_results(results).text,
          last_sources |-> old_sources \o format_results(results).sources]

execute_hits_first(kwargs, results, old_sources) ==
    IF results.documents # <<>>
    THEN [result |-> format_results(results).text,
          last_sources |-> format_results(results).sources]
    ELSE IF ~FalsyStr(results.error)
    THEN [result |-> <<results.error>>, last_sources |-> old_sources]
    ELSE [result |-> NoContentMessage(Get(kwargs, "course_name", NoneS),
                                      Get(kwargs, "lesson_number", NoneInt)),
          last_sources |-> old_sources]

\* CourseSearchTool.execute on what self.store.search returned: the string it
\* returns and the tool's last_sources afterwards
execute(kwargs, results, old_sources) ==
    IF ~FalsyStr(results.error)
    THEN [result |-> <<results.error>>, last_sources |-> old_sources]
    ELSE IF results.documents = <<>>
    THEN [result |-> NoContentMessage(Get(kwargs, "course_name", NoneS),
                                      Get(kwargs, "lesson_number", NoneInt)),
          last_sources |-> old_sources]
    ELSE [result |-> format_results(results).text,
          last_sources |-> format_results(results).sources]

\* CourseSearchTool.execute_mock: the string it returns for each pair that
\* random.sample may draw into last_sources
mock_sources_data == <<
    [text |-> <<"MCP Course - Lesson 1: Introduction">>, url |-> "https://example.com/mcp-lesson-1"],
    [text |-> <<"MCP Course - Lesson 5: Deployment">>, url |-> "https://example.com/mcp-lesson-5"],
    [text |-> <<"Advanced Retrieval Course - Module 2">>, url |-> None],
    [text |-> <<"Anthropic API Documentation">>, url |-> None] >>

\* random.sample(population, k): every ordered choice of k distinct elements
Sample2(population) ==
    {<<population[i], population[j]>> : i \in DOMAIN population, j \in DOMAIN population} \
    {<<population[i], population[i]>> : i \in DOMAIN population}

execute_mock_text(kwargs) ==
    LET query == kwargs.query
        course_name == Get(kwargs, "course_name", NoneS)
        lesson_number == Get(kwargs, "lesson_number", NoneInt)
    IN  IF Contains(<<"o", "u", "t", "l", "i", "n", "e">>, Lower(query)) /\ ~FalsyS(course_name) /\ Contains(<<"m", "c", "p">>, Lower(course_name))
        THEN <<"**MCP Course Outline Found:**">>
        ELSE IF Contains(<<"l", "e", "s", "s", "o", "n">>, Lower(query)) /\ lesson_number = 5
        THEN <<"**Lesson 5: Deployment and Scaling**">>
        ELSE <<"**Mock Search Results for: ", query, "**">>

execute_mock(kwargs) ==
    {[result |-> execute_mock_text(kwargs), last_sources |-> s] : s \in Sample2(mock_sources_data)}

\* ------------------------------------------------------------- ToolManager
\* What Tool.execute of a tool instance may do: the results are records
\* [raised, result, sources, wrote]: whether it raised, the string returned,
\* the instance's last_sources afterwards and whether it assigned them.
ToolExecute(t, kwargs, old_sources) ==
    IF t \in SearchToolInstances
    THEN {[raised |-> FALSE, result |-> execute(kwargs, r, old_sources).result,
           sources |-> execute(kwargs, r, old_sources).last_sources,
           wrote |-> FalsyStr(r.error) /\ r.documents # <<>>, searched |-> <<r>>] : r \in SearchResults}
         \cup {[raised |-> TRUE, result |-> <<>>, sources |-> old_sources, wrote |-> FALSE,
                 searched |-> <<>>]}
    ELSE IF t = "aux"
    THEN {[raised |-> FALSE, result |-> <<"aux result">>,
           sources |-> <<[text |-> <<"Aux source">>, url |-> None]>>, wrote |-> TRUE,
           searched |-> <<>>],
          [raised |-> TRUE, result |-> <<>>, sources |-> old_sources, wrote |-> FALSE,
           searched |-> <<>>]}
    ELSE {[raised |-> FALSE, result |-> <<"plain result">>, sources |-> old_sources, wrote |-> FALSE,
           searched |-> <<>>],
          [raised |-> TRUE, result |-> <<>>, sources |-> old_sources, wrote |-> FALSE,
           searched |-> <<>>]}

ToolExecuteMock(t, kwargs) ==
    {[raised |-> FALSE, result |-> o.result, sources |-> o.last_sources, wrote |-> TRUE,
      searched |-> <<>>] :
        o \in execute_mock(kwargs)}

\* The first two entries of _execute_mock_search's mock_sources_data
mock_search_sources == <<
    [text |-> <<"MCP Course - Lesson 1: Introduction">>,
     url |-> "https://learn.deeplearning.ai/courses/mcp/lesson/1/introduction"],
    [text |-> <<"MCP Course - Lesson 5: Deployment">>,
     url |-> "https://learn.deeplearning.ai/courses/mcp/lesson/5/deployment"] >>

\* The tool _execute_mock_search writes to: the first with mock_sources, if any
MockSearchTargets(reg) ==
    {reg[i].tool : i \in {i \in DOMAIN reg :
        /\ HasMockSources(reg[i].tool)
        /\ \A j \in 1..(i - 1) : ~HasMockSources(reg[j].tool)}}

\* A mock search that only builds its completion string
execute_mock_search_no_write(reg, ls, kwargs) ==
    [raised |-> FALSE,
     result |-> <<"Mock search completed for: ", Get(kwargs, "query", <<"general query">>)>>,
     last_sources |-> ls,
     wrote |-> {}, returned |-> <<>>,
     method |-> "_execute_mock_search", tool |-> None, searched |-> <<>>]

\* ToolManager._execute_mock_search
execute_mock_search(reg, ls, kwargs) ==
    [raised |-> FALSE,
     result |-> <<"Mock search completed for: ", Get(kwargs, "query", <<"general query">>)>>,
     last_sources |-> [t \in DOMAIN ls |-> IF t \in MockSearchTargets(reg) THEN mock_search_sources ELSE ls[t]],
     wrote |-> MockSearchTargets(reg), returned |-> <<>>,
     method |-> "_execute_mock_search", tool |-> None, searched |-> <<>>]

\* One outcome of dispatching to instance t
Dispatched(t, ls, method, o) ==
    [raised |-> o.raised, result |-> o.result,
     last_sources |-> [ls EXCEPT ![t] = o.sources],
     wrote |-> IF o.wrote THEN {t} ELSE {}, returned |-> o.result,
     method |-> method, tool |-> t, searched |-> o.searched]

NotFound_raises(tool_name, ls) ==
    [raised |-> TRUE, result |-> <<>>,
     last_sources |-> ls, wrote |-> {}, returned |-> <<>>, method |-> "none", tool |-> None,
     searched |-> <<>>]

\* return f"Tool '{tool_name}' not found"
NotFound(tool_name, ls) ==
    [raised |-> FALSE, result |-> <<"Tool '", tool_name, "' not found">>,
     last_sources |-> ls, wrote |-> {}, returned |-> <<>>, method |-> "none", tool |-> None,
     searched |-> <<>>]

execute_tool_never_mock(reg, mock_mode, ls, tool_name, kwargs) ==
    IF tool_name \notin Names(reg)
    THEN IF mock_mode /\ tool_name = "search_courses"
         THEN {execute_mock_search(reg, ls, kwargs)}
         ELSE {NotFound(tool_name, ls)}
    ELSE {Dispatched(Lookup(reg, tool_name), ls, "execute", o) :
            o \in ToolExecute(Lookup(reg, tool_name), kwargs, ls[Lookup(reg, tool_name)])}

\* ToolManager.execute_tool: every way the call may end
execute_tool(reg, mock_mode, ls, tool_name, kwargs) ==
    IF tool_name \notin Names(reg)
    THEN IF mock_mode /\ tool_name = "search_courses"
         THEN {execute_mock_search(reg, ls, kwargs)}
         ELSE {NotFound(tool_name, ls)}
    ELSE LET t == Lookup(reg, tool_name)
         IN  IF mock_mode /\ HasExecuteMock(t)
             THEN {Dispatched(t, ls, "execute_mock", o) : o \in ToolExecuteMock(t, kwargs)}
             ELSE {Dispatched(t, ls, "execute", o) : o \in ToolExecute(t, kwargs, ls[t])}

\* ------------------------------------------------------------- AIGenerator
SYSTEM_PROMPT == "You are an AI assistant specialized in course materials"

\* self.query_patterns, in dict order
query_patterns == <<
    [pattern_type |-> "outline",
     keywords |-> <<<<"o", "u", "t", "l", "i", "n", "e">>,
                   <<"s", "t", "r", "u", "c", "t", "u", "r", "e">>,
                   <<"s", "y", "l", "l", "a", "b", "u", "s">>,
                   <<"o", "v", "e", "r", "v", "i", "e", "w">>,
                   <<"c", "o", "n", "t", "e", "n", "t", "s">>>>],
    [pattern_type |-> "chatbot",
     keywords |-> <<<<"c", "h", "a", "t", "b", "o", "t">>,
                   <<"c", "h", "a", "t", " ", "b", "o", "t">>,
                   <<"c", "o", "n", "v", "e", "r", "s", "a", "t", "i", "o", "n", "a", "l">>,
                   <<"b", "o", "t">>>>],
    [pattern_type |-> "rag",
     keywords |-> <<<<"r", "a", "g">>,
                   <<"r", "e", "t", "r", "i", "e", "v", "a", "l">>,
                   <<"a", "u", "g", "m", "e", "n", "t", "e", "d">>,
                   <<"g", "e", "n", "e", "r", "a", "t", "i", "o", "n">>>>],
    [pattern_type |-> "lesson",
     keywords |-> <<<<"l", "e", "s", "s", "o", "n">>,
                   <<"m", "o", "d", "u", "l", "e">>,
                   <<"c", "h", "a", "p", "t", "e", "r">>,
                   <<"s", "e", "c", "t", "i", "o", "n">>>>] >>

\* The keywords that make _generate_mock_response simulate a search
trigger_keywords == <<
    <<"c", "o", "u", "r", "s", "e">>,
    <<"m", "c", "p">>,
    <<"r", "a", "g">>,
    <<"c", "h", "r", "o", "m", "a">>,
    <<"a", "n", "t", "h", "r", "o", "p", "i", "c">> >>

AnyKeywordIn(keywords, query_lower) ==
    \E k \in DOMAIN keywords : Contains(keywords[k], query_lower)

RECURSIVE MockResponseFrom_generic(_, _)
MockResponseFrom_generic(i, query_lower) ==
    IF i > Len(query_patterns) THEN <<"default">>
    ELSE IF AnyKeywordIn(query_patterns[i].keywords, query_lower)
    THEN IF query_patterns[i].pattern_type = "outline"
         THEN <<"outline", "default">>
         ELSE <<query_patterns[i].pattern_type>>
    ELSE MockResponseFrom_generic(i + 1, query_lower)

RECURSIVE MockResponseFrom(_, _)
\* The for loop of _generate_mock_response from pattern i on
MockResponseFrom(i, query_lower) ==
    IF i > Len(query_patterns) THEN <<"default">>
    ELSE IF AnyKeywordIn(query_patterns[i].keywords, query_lower)
    THEN IF query_patterns[i].pattern_type = "outline"
         THEN IF Contains(<<"m", "c", "p">>, query_lower)
              THEN <<"outline", "MCP">>
              ELSE <<"outline", "default">>
         ELSE <<query_patterns[i].pattern_type>>
    ELSE MockResponseFrom(i + 1, query_lower)

mock_response_text_cased(query) == MockResponseFrom(1, query)

\* The text _generate_mock_response returns, as its key path in self.mock_responses
mock_response_text(query) == MockResponseFrom(1, Lower(query))

\* Whether _generate_mock_response calls tool_manager.execute_tool
MockSimulatesSearch(query, tm) == tm /\ AnyKeywordIn(trigger_keywords, Lower(query))

\* ------------------------------------------------------------ model responses
\* The content blocks a model response is cut from: a response's content is a
\* window of this sequence, so text and tool_use blocks come in every order.
BlockScript == <<
    [type |-> "tool_use", id |-> "toolu_A", name |-> "search_course_content",
     input |-> [query |-> <<"o", "u", "t", "l", "i", "n", "e">>, course_name |-> <<"M", "C", "P">>]],
    [type |-> "text", text |-> "Let me search."],
    [type |-> "tool_use", id |-> "toolu_B", name |-> "search_courses",
     input |-> [query |-> <<"l", "e", "s", "s", "o", "n">>, lesson_number |-> 5]],
    [type |-> "text", text |-> "One more."] >>

Contents ==
    UNION {{SubSeq(BlockScript, from, from + n - 1) :
              n \in 0..Min(MaxBlocks, Len(BlockScript) + 1 - from)} :
           from \in 1..Len(BlockScript)}

Responses == {[stop_reason |-> sr, content |-> c] : sr \in {"end_turn", "tool_use"}, c \in Contents}

\* self.client.messages.create raised
CallFailed == [stop_reason |-> "raised", content |-> <<>>]
NoResponse == [stop_reason |-> "none", content |-> <<>>]

ToolUseBlocks(content) == SelectSeq(content, LAMBDA b : b.type = "tool_use")

\* response.content[0].text: IndexError on no block, AttributeError on a tool_use block
FirstTextRaises(r) == r.content = <<>> \/ r.content[1].type # "text"
FirstText(r) == IF FirstTextRaises(r) THEN None ELSE r.content[1].text

\* The queries and histories a caller passes
LiveQueries == {<<"h", "e", "l", "l", "o">>}
Queries == {<<"M", "C", "P", " ", "o", "u", "t", "l", "i", "n", "e">>, <<"W", "h", "a", "t", " ", "i", "s", " ", "R", "A", "G">>, <<"h", "e", "l", "l", "o">>,
            <<"L", "e", "s", "s", "o", "n", " ", "o", "v", "e", "r", "v", "i", "e", "w">>,
            <<"M", "C", "P", " ", "b", "o", "t">>}
\* conversation_history and tools as a caller passes them: neither, or both
CallArgs(reg) ==
    {[history |-> None, tools |-> <<>>, tm |-> FALSE],
     [history |-> "User: hi", tools |-> get_tool_definitions(reg), tm |-> TRUE]}

\* The tool names and arguments of a direct execute_tool call
CalledNames == {"search_course_content", "search_courses", "get_weather"}
CalledArgs == {[query |-> <<"o", "u", "t", "l", "i", "n", "e">>], [query |-> <<"l", "e", "s", "s", "o", "n">>, lesson_number |-> 5],
               [query |-> <<"o", "u", "t", "l", "i", "n", "e">>, course_name |-> <<"M", "C", "P">>, lesson_number |-> 0]}

base_params == {"model", "temperature", "max_tokens"}

\* system_content of generate_response
SystemContent(conversation_history) ==
    IF ~FalsyStr(conversation_history)
    THEN <<SYSTEM_PROMPT, "Previous conversation:", conversation_history>>
    ELSE <<SYSTEM_PROMPT>>

\* api_params of generate_response: the dict's keys and the values the claims read
ApiParams(query, conversation_history, tools_arg) ==
    [keys |-> base_params \cup {"messages", "system"}
              \cup (IF tools_arg # <<>> THEN {"tools", "tool_choice"} ELSE {}),
     messages |-> <<[role |-> "user", content |-> query]>>,
     system |-> SystemContent(conversation_history),
     tools |-> tools_arg]

\* final_params of _handle_tool_execution
FinalParams(messages, system) ==
    [keys |-> base_params \cup {"messages", "system"},
     messages |-> messages, system |-> system, tools |-> <<>>]

\* ------------------------------------------------------------------ state
Procs == {1, 2}

IdleGen ==
    [pc |-> "idle", query |-> <<>>, tm |-> FALSE, calls |-> <<>>,
     resp |-> NoResponse, stop2 |-> "none", head2 |-> <<>>, i |-> 0, messages |-> <<>>,
     tool_results |-> <<>>, execs |-> <<>>, outcome |-> "none", answer |-> <<>>,
     raisedIn |-> "none", reset |-> FALSE, wrote |-> FALSE]

NoOp == [op |-> "none", name |-> None, tool |-> None, raised |-> FALSE, method |-> "none",
         kwargs |-> <<>>, returned |-> <<>>, result |-> <<>>, cleared |-> {},
         searched |-> <<>>, before |-> 0]

\* ------------------------------------------------------------ query endpoint
\* mock_session_manager.create_session()
create_session == "test-session-123"

\* The session_id of a request body: absent (None), or a string
RequestSessionIds(issued) == {None, "", "client-session"} \cup issued
ApiQueries == {"What is machine learning?", "Explain neural networks"}

query_documents_always_creates(session_id, outcome) ==
    [created |-> 1, passed |-> create_session,
     status |-> IF outcome = "raised" THEN 500 ELSE 200,
     session_id |-> IF outcome = "raised" THEN None ELSE create_session]

\* query_documents on a request with that session_id, when rag_system.query
\* ends as outcome: the sessions it creates, the session id it passes to the
\* query, and the status and session_id of its response
query_documents(session_id, outcome) ==
    LET sid == IF FalsyStr(session_id) THEN create_session ELSE session_id
    IN  [created |-> IF FalsyStr(session_id) THEN 1 ELSE 0,
         passed |-> sid,
         status |-> IF outcome = "raised" THEN 500 ELSE 200,
         session_id |-> IF outcome = "raised" THEN None ELSE sid]

NoRequest == [op |-> "none", request_sid |-> None, query |-> "", created |-> 0,
              passed |-> None, status |-> 0, session_id |-> None]
NoApi == [created |-> 0, issued |-> {}, last |-> NoRequest]

\* -------------------------------------------------------- concurrent callers
\* A caller between its queries
NoQuery == [pc |-> "idle", hits |-> FALSE, got |-> <<>>, gotBy |-> {}, overlapped |-> FALSE]
NoRace == [p \in Procs |-> NoQuery]

\* The state after construction
Init ==
    /\ api = NoApi
    /\ race = NoRace
    /\ tools = <<>>
    /\ tm_mock_mode \in BOOLEAN
    /\ gen_mock_mode \in BOOLEAN
    /\ last_sources = [t \in Instances |-> <<>>]
    /\ srcBy = [t \in Instances |-> 0]
    /\ afterReset = "no"
    /\ regOrder = <<>>
    /\ gen = [p \in Procs |-> IdleGen]
    /\ lastOp = NoOp

\* History kept beside an execute_tool outcome o of caller p
NoteExecution(p, o, by) ==
    /\ srcBy' = [t \in Instances |-> IF t \in o.wrote THEN p ELSE by[t]]
    /\ afterReset' = IF o.method = "none" THEN afterReset ELSE "no"

\* The record of a call execute_tool(name, kwargs) that ended as o: the tool
\* and method it invoked, what that returned and what execute_tool returned,
\* what self.store.search returned to it and how many sources the tool held before it
ExecOp(name, kwargs, o) ==
    [op |-> "execute_tool", name |-> name, tool |-> o.tool, raised |-> o.raised,
     method |-> o.method, kwargs |-> kwargs, returned |-> o.returned, result |-> o.result,
     cleared |-> {}, searched |-> o.searched,
     before |-> IF o.tool = None THEN 0 ELSE Len(last_sources[o.tool])]

\* A new query of caller p: what earlier queries of p wrote is no longer p's
Forget(p) == [t \in Instances |-> IF srcBy[t] = p THEN 0 ELSE srcBy[t]]

\* -------------------------------------------------------------- the caller
\* tool_manager.register_tool(t), between queries
RegisterTool(t) ==
    /\ \A p \in Procs : gen[p].pc = "idle"
    /\ tools' = register_tool(tools, t).tools
    /\ regOrder' = Registrations(regOrder, tools, t)
    /\ lastOp' = [NoOp EXCEPT !.op = "register_tool", !.tool = t,
                              !.raised = register_tool(tools, t).raised]
    /\ afterReset' = IF afterReset = "clean" /\ ~register_tool(tools, t).raised
                     THEN "registered" ELSE afterReset
    /\ UNCHANGED <<api, race, tm_mock_mode, gen_mock_mode, last_sources, srcBy, gen>>

\* tool_manager.reset_sources(), before a query
ResetSources(p) ==
    /\ gen[p].pc = "idle"
    /\ last_sources' = reset_sources(tools, last_sources)
    /\ srcBy' = [t \in Instances |-> IF reset_sources(tools, last_sources)[t] = <<>> THEN 0 ELSE srcBy[t]]
    /\ afterReset' = "clean"
    /\ lastOp' = [NoOp EXCEPT !.op = "reset_sources",
                              !.cleared = {t \in Instances :
                                  last_sources[t] # reset_sources(tools, last_sources)[t]}]
    /\ UNCHANGED <<api, race, tools, regOrder, tm_mock_mode, gen_mock_mode, gen>>

\* tool_manager.execute_tool(name, **kwargs) called directly, between queries
ExecuteTool(p) ==
    /\ \A q \in Procs : gen[q].pc = "idle"
    /\ \E name \in CalledNames, kwargs \in CalledArgs :
         \E o \in execute_tool(tools, tm_mock_mode, last_sources, name, kwargs) :
            /\ last_sources' = o.last_sources
            /\ NoteExecution(0, o, srcBy)
            /\ lastOp' = ExecOp(name, kwargs, o)
    /\ UNCHANGED <<api, race, tools, regOrder, tm_mock_mode, gen_mock_mode, gen>>

\* The caller has read the answer and get_last_sources()
Finish(p) ==
    /\ gen[p].pc = "returned"
    /\ gen' = [gen EXCEPT ![p] = IdleGen]
    /\ lastOp' = NoOp
    /\ UNCHANGED <<api, race, tools, regOrder, tm_mock_mode, gen_mock_mode, last_sources, srcBy, afterReset>>

\* ------------------------------------------------------- generate_response
\* An exception leaves generate_response
Raised(g, where) == [g EXCEPT !.pc = "returned", !.outcome = "raised", !.raisedIn = where]

ReturnText_last(g, r) ==
    IF FirstTextRaises(r) THEN Raised(g, "content")
    ELSE [g EXCEPT !.pc = "returned", !.outcome = "text",
                   !.answer = <<SelectSeq(r.content, LAMBDA b : b.type = "text")[
                                  Len(SelectSeq(r.content, LAMBDA b : b.type = "text"))].text>>]

\* return response.content[0].text
ReturnText(g, r) ==
    IF FirstTextRaises(r) THEN Raised(g, "content")
    ELSE [g EXCEPT !.pc = "returned", !.outcome = "text", !.answer = <<FirstText(r)>>]

\* response.stop_reason == "tool_use" and tool_manager
HandlesToolUse(response, tm) == response.stop_reason = "tool_use" /\ tm

\* The entry appended to tool_results for a tool_use block
ToolResult(content_block, tool_result) ==
    [type |-> "tool_result", tool_use_id |-> content_block.id, content |-> tool_result]

AppendResult_front(tool_results, entry) == <<entry>> \o tool_results

\* tool_results.append(...)
AppendResult(tool_results, entry) == Append(tool_results, entry)

WithToolResults_each(messages, tool_results) ==
    messages \o [k \in DOMAIN tool_results |-> [role |-> "user", content |-> <<tool_results[k]>>]]

\* messages of the follow-up call: the tool results as a single user message
WithToolResults(messages, tool_results) ==
    IF tool_results # <<>>
    THEN Append(messages, [role |-> "user", content |-> tool_results])
    ELSE messages

NoExecution == [raised |-> FALSE, result |-> <<>>, last_sources |-> last_sources,
                wrote |-> {}, returned |-> <<>>, method |-> "none", tool |-> None,
                searched |-> <<>>]

MockReturn_propagates(g, query, raised) ==
    IF raised THEN Raised(g, "tool")
    ELSE [g EXCEPT !.pc = "returned", !.outcome = "text", !.answer = mock_response_text(query)]

\* How _generate_mock_response ends: "except Exception: pass" drops what the
\* simulated search raised, and the canned text is returned
MockReturn(g, query, raised) ==
    [g EXCEPT !.pc = "returned", !.outcome = "text", !.answer = mock_response_text(query)]

\* generate_response in mock mode: _generate_mock_response as a whole
GenerateMock(p) ==
    /\ gen[p].pc = "idle"
    /\ gen_mock_mode
    /\ \E query \in Queries, tm \in BOOLEAN :
         \E o \in IF MockSimulatesSearch(query, tm)
                  THEN execute_tool(tools, tm_mock_mode, last_sources, "search_courses", [query |-> query])
                  ELSE {NoExecution} :
            /\ last_sources' = o.last_sources
            /\ NoteExecution(p, o, Forget(p))
            /\ lastOp' = IF MockSimulatesSearch(query, tm) THEN ExecOp("search_courses", [query |-> query], o) ELSE NoOp
            /\ gen' = [gen EXCEPT ![p] =
                         MockReturn([IdleGen EXCEPT !.query = query, !.tm = tm,
                                         !.execs = IF MockSimulatesSearch(query, tm)
                                                   THEN <<"search_courses">> ELSE <<>>,
                                         !.reset = (afterReset = "clean"),
                                         !.wrote = (o.wrote # {})],
                                    query, o.raised)]
    /\ UNCHANGED <<api, race, tools, regOrder, tm_mock_mode, gen_mock_mode>>

\* generate_response up to the first self.client.messages.create and the
\* branch on its response
FirstCall(p) ==
    /\ gen[p].pc = "idle"
    /\ ~gen_mock_mode
    /\ \E query \in LiveQueries, args \in CallArgs(tools),
          r \in Responses \cup {CallFailed} :
         LET api_params == ApiParams(query, args.history, args.tools)
             tm == args.tm
             g == [IdleGen EXCEPT !.query = query, !.tm = tm, !.calls = <<api_params>>,
                                  !.resp = r, !.reset = (afterReset = "clean")]
         IN  gen' = [gen EXCEPT ![p] =
                       IF r = CallFailed THEN Raised(g, "model")
                       ELSE IF HandlesToolUse(r, tm)
                       THEN [g EXCEPT !.pc = "handling", !.i = 1,
                                      !.messages = Append(api_params.messages,
                                          [role |-> "assistant", content |-> r.content])]
                       ELSE ReturnText(g, r)]
    /\ srcBy' = Forget(p)
    /\ lastOp' = NoOp
    /\ UNCHANGED <<api, race, tools, regOrder, tm_mock_mode, gen_mock_mode, last_sources, afterReset>>

NextIndex_skip(i) == i + 2

\* for content_block in initial_response.content: the place of the next block
NextIndex(i) == i + 1

\* One iteration of the for loop of _handle_tool_execution
ToolStep(p) ==
    LET g == gen[p]
        content_block == g.resp.content[g.i]
    IN  /\ g.pc = "handling"
        /\ g.i <= Len(g.resp.content)
        /\ IF content_block.type = "tool_use"
           THEN \E o \in execute_tool(tools, tm_mock_mode, last_sources,
                                      content_block.name, content_block.input) :
                   /\ last_sources' = o.last_sources
                   /\ NoteExecution(p, o, srcBy)
                   /\ lastOp' = ExecOp(content_block.name, content_block.input, o)
                   /\ gen' = [gen EXCEPT ![p] =
                        IF o.raised
                        THEN Raised([g EXCEPT !.execs = Append(@, content_block.id)], "tool")
                        ELSE [g EXCEPT !.i = NextIndex(@),
                                       !.tool_results = AppendResult(@, ToolResult(content_block, o.result)),
                                       !.execs = Append(@, content_block.id),
                                       !.wrote = @ \/ (o.wrote # {})]]
           ELSE /\ gen' = [gen EXCEPT ![p].i = NextIndex(@)]
                /\ lastOp' = NoOp
                /\ UNCHANGED <<last_sources, srcBy, afterReset>>
        /\ UNCHANGED <<api, race, tools, regOrder, tm_mock_mode, gen_mock_mode>>

FollowUpCall_again(p) ==
    LET g == gen[p]
    IN  /\ g.pc = "handling"
        /\ g.i > Len(g.resp.content)
        /\ \E r \in Responses \cup {CallFailed} :
             LET messages == WithToolResults(g.messages, g.tool_results)
                 final_params == FinalParams(messages, g.calls[1].system)
                 g1 == [g EXCEPT !.calls = Append(@, final_params),
                                 !.messages = messages, !.stop2 = r.stop_reason,
                                 !.head2 = SubSeq(r.content, 1, Min(1, Len(r.content)))]
             IN  gen' = [gen EXCEPT ![p] =
                           IF r = CallFailed THEN Raised(g1, "model")
                           ELSE IF HandlesToolUse(r, g.tm) /\ Len(g.calls) < 2
                           THEN [g1 EXCEPT !.i = 1, !.resp = r, !.tool_results = <<>>]
                           ELSE ReturnText(g1, r)]
        /\ lastOp' = NoOp
        /\ UNCHANGED <<api, race, tools, regOrder, tm_mock_mode, gen_mock_mode, last_sources, srcBy, afterReset>>

FollowUpCall_retry(p) ==
    LET g == gen[p]
    IN  /\ g.pc = "handling"
        /\ g.i > Len(g.resp.content)
        /\ Len(g.calls) < 4
        /\ \E r \in Responses \cup {CallFailed} :
             LET messages == WithToolResults(g.messages, g.tool_results)
                 final_params == FinalParams(messages, g.calls[1].system)
                 g1 == [g EXCEPT !.calls = Append(@, final_params),
                                 !.stop2 = r.stop_reason,
                                 !.head2 = SubSeq(r.content, 1, Min(1, Len(r.content)))]
             IN  gen' = [gen EXCEPT ![p] =
                           IF r = CallFailed THEN [g1 EXCEPT !.raisedIn = "model"]
                           ELSE ReturnText([g1 EXCEPT !.messages = messages], r)]
        /\ lastOp' = NoOp
        /\ UNCHANGED <<api, race, tools, regOrder, tm_mock_mode, gen_mock_mode, last_sources, srcBy, afterReset>>

\* The rest of _handle_tool_execution: the follow-up call and the return
FollowUpCall(p) ==
    LET g == gen[p]
    IN  /\ g.pc = "handling"
        /\ g.i > Len(g.resp.content)
        /\ \E r \in Responses \cup {CallFailed} :
             LET messages == WithToolResults(g.messages, g.tool_results)
                 final_params == FinalParams(messages, g.calls[1].system)
                 g1 == [g EXCEPT !.calls = Append(@, final_params),
                                 !.messages = messages, !.stop2 = r.stop_reason,
                                 !.head2 = SubSeq(r.content, 1, Min(1, Len(r.content)))]
             IN  gen' = [gen EXCEPT ![p] =
                           IF r = CallFailed THEN Raised(g1, "model") ELSE ReturnText(g1, r)]
        /\ lastOp' = NoOp
        /\ UNCHANGED <<api, race, tools, regOrder, tm_mock_mode, gen_mock_mode, last_sources, srcBy, afterReset>>

\* --------------------------------------------------------------- behaviours
Step(p) ==
    \/ ResetSources(p)
    \/ ExecuteTool(p)
    \/ GenerateMock(p)
    \/ FirstCall(p)
    \/ ToolStep(p)
    \/ FollowUpCall(p)
    \/ Finish(p)

\* One caller: a query at a time
Next ==
    \/ \E t \in Instances : RegisterTool(t)
    \/ Step(1)

Spec == Init /\ [][Next]_vars

\* ------------------------------------------------------------ query endpoint
\* POST /api/query
QueryDocuments ==
    /\ \E session_id \in RequestSessionIds(api.issued), query \in ApiQueries,
          outcome \in {"ok", "raised"} :
         LET res == query_documents(session_id, outcome)
         IN  /\ api.created + res.created <= MaxSessions
             /\ api' = [created |-> api.created + res.created,
                        issued |-> api.issued \cup (IF res.status = 200 THEN {res.session_id} ELSE {}),
                        last |-> [op |-> "query", request_sid |-> session_id, query |-> query,
                                  created |-> res.created, passed |-> res.passed,
                                  status |-> res.status, session_id |-> res.session_id]]
    /\ UNCHANGED <<tools, tm_mock_mode, gen_mock_mode, last_sources, srcBy, afterReset,
                   regOrder, gen, lastOp, race>>

InitApi ==
    /\ Init
    /\ ~tm_mock_mode /\ ~gen_mock_mode

NextApi == QueryDocuments

SpecApi == InitApi /\ [][NextApi]_vars

\* -------------------------------------------------------- concurrent callers
\* Callers of one registry with one CourseSearchTool, each running
\* reset_sources(); generate_response (a retrieval); get_last_sources()
InFlight(q) == race[q].pc \in {"reset", "generated"}

\* A step of caller p that writes last_sources: the queries it runs into
Overlap(p, r) ==
    [q \in Procs |->
        IF q = p THEN r
        ELSE IF InFlight(q) THEN [race[q] EXCEPT !.overlapped = TRUE] ELSE race[q]]

\* tool_manager.reset_sources() of caller p
RaceReset(p) ==
    /\ race[p].pc = "idle"
    /\ last_sources' = reset_sources(tools, last_sources)
    /\ srcBy' = [t \in Instances |-> IF reset_sources(tools, last_sources)[t] = <<>> THEN 0 ELSE srcBy[t]]
    /\ race' = Overlap(p, [NoQuery EXCEPT !.pc = "reset",
                                          !.overlapped = \E q \in Procs \ {p} : InFlight(q)])
    /\ UNCHANGED <<api, tools, regOrder, tm_mock_mode, gen_mock_mode, afterReset, gen, lastOp>>

\* The retrieval of caller p's generate_response: execute_tool of the search tool
RaceRetrieve(p) ==
    /\ race[p].pc = "reset"
    /\ \E kwargs \in CalledArgs :
         \E o \in execute_tool(tools, tm_mock_mode, last_sources, "search_course_content", kwargs) :
            /\ last_sources' = o.last_sources
            /\ srcBy' = [t \in Instances |-> IF t \in o.wrote THEN p ELSE srcBy[t]]
            /\ race' = Overlap(p, IF o.raised THEN NoQuery
                                  ELSE [race[p] EXCEPT !.pc = "generated", !.hits = o.wrote # {}])
    /\ UNCHANGED <<api, tools, regOrder, tm_mock_mode, gen_mock_mode, afterReset, gen, lastOp>>

\* tool_manager.get_last_sources() of caller p
RaceRead(p) ==
    /\ race[p].pc = "generated"
    /\ race' = [race EXCEPT ![p] =
                  [@ EXCEPT !.pc = "read", !.got = get_last_sources(tools, last_sources),
                            !.gotBy = {srcBy[tools[i].tool] : i \in {i \in DOMAIN tools :
                                          /\ HasLastSources(tools[i].tool)
                                          /\ last_sources[tools[i].tool] # <<>>}}]]
    /\ UNCHANGED <<api, tools, regOrder, tm_mock_mode, gen_mock_mode, last_sources, srcBy,
                   afterReset, gen, lastOp>>

\* Caller p's query is answered
RaceDone(p) ==
    /\ race[p].pc = "read"
    /\ race' = [race EXCEPT ![p] = NoQuery]
    /\ UNCHANGED <<api, tools, regOrder, tm_mock_mode, gen_mock_mode, last_sources, srcBy,
                   afterReset, gen, lastOp>>

InitRace ==
    /\ api = NoApi
    /\ race = NoRace
    /\ tools = register_tool(<<>>, "cs").tools
    /\ regOrder = <<"cs">>
    /\ tm_mock_mode = FALSE
    /\ gen_mock_mode = FALSE
    /\ last_sources = [t \in Instances |-> <<>>]
    /\ srcBy = [t \in Instances |-> 0]
    /\ afterReset = "no"
    /\ gen = [p \in Procs |-> IdleGen]
    /\ lastOp = NoOp

NextRace ==
    \E p \in Procs : RaceReset(p) \/ RaceRetrieve(p) \/ RaceRead(p) \/ RaceDone(p)

SpecRace == InitRace /\ [][NextRace]_vars

\* ------------------------------------------------------------------ claims
\* The tool_result entries of the messages of a follow-up call
FollowUpResults(messages) ==
    IF Len(messages) > 2 THEN messages[Len(messages)].content ELSE <<>>

\* The registered tools whose list get_last_sources returns
SourceHolders ==
    {tools[i].tool : i \in {i \in DOMAIN tools :
        /\ HasLastSources(tools[i].tool) /\ last_sources[tools[i].tool] # <<>>
        /\ \A j \in 1..(i - 1) :
              ~(HasLastSources(tools[j].tool) /\ last_sources[tools[j].tool] # <<>>)}}

\* C1: the follow-up call's message holds one tool_result per tool_use block
\* of the first response, with that block's id, in the blocks' order.
C1_ResultsMatchRequests ==
    \A p \in Procs :
        Len(gen[p].calls) = 2 =>
            LET requests == ToolUseBlocks(gen[p].resp.content)
                results == FollowUpResults(gen[p].calls[2].messages)
            IN  /\ Len(results) = Len(requests)
                /\ \A k \in DOMAIN requests :
                      /\ results[k].type = "tool_result"
                      /\ results[k].tool_use_id = requests[k].id

C1_Witness ==
    \E p \in Procs :
        /\ Len(gen[p].calls) = 2
        /\ Len(ToolUseBlocks(gen[p].resp.content)) = 2
        /\ Len(gen[p].resp.content) = 3

\* C2 (as claimed): once generate_response has ended after a first response
\* with stop_reason tool_use and a tool_manager, exactly one follow-up call was
\* issued, and it carried neither tools nor tool_choice.
C2_OneFollowUpWithoutTools ==
    \A p \in Procs :
        (/\ gen[p].pc = "returned"
         /\ gen[p].resp.stop_reason = "tool_use"
         /\ gen[p].tm) =>
            /\ Len(gen[p].calls) = 2
            /\ gen[p].calls[2].keys \cap {"tools", "tool_choice"} = {}

\* C3: a generate_response issues at most two model calls, the second built
\* from the first one's response: none in mock mode, one when the first
\* response ends the query, two when the tool round is completed.
C3_AtMostTwoCalls ==
    \A p \in Procs :
        LET g == gen[p]
            round == g.resp.stop_reason = "tool_use" /\ g.tm
        IN  /\ Len(g.calls) <= 2
            /\ gen_mock_mode => Len(g.calls) = 0
            /\ Len(g.calls) = 2 =>
                  /\ round
                  /\ g.calls[2].messages[2] = [role |-> "assistant", content |-> g.resp.content]
            /\ (g.pc = "returned" /\ ~gen_mock_mode) =>
                  Len(g.calls) = IF round /\ g.raisedIn # "tool" THEN 2 ELSE 1

C3_Witness ==
    \E p \in Procs :
        /\ gen[p].pc = "returned"
        /\ Len(gen[p].calls) = 2
        /\ gen[p].stop2 = "tool_use"

\* C4 (as claimed): an exception of the executor during a tool round is
\* caught for that call: the round goes on with a tool result for the block,
\* and the exception does not leave generate_response.
C4_ExecutorErrorContained ==
    \A p \in Procs :
        (/\ gen[p].pc # "idle"
         /\ ~gen_mock_mode
         /\ lastOp.op = "execute_tool"
         /\ lastOp.raised) =>
            /\ gen[p].pc = "handling"
            /\ gen[p].raisedIn # "tool"
            /\ Len(gen[p].tool_results) = Len(gen[p].execs)

\* C5 (as claimed): execute_tool of a registered name invokes the registered
\* tool's execute and returns its result, whatever the registry's mock_mode.
C5_AlwaysExecute ==
    (lastOp.op = "execute_tool" /\ lastOp.name \in Names(tools)) =>
        /\ lastOp.tool = Lookup(tools, lastOp.name)
        /\ lastOp.method = "execute"
        /\ lastOp.result = lastOp.returned

\* C5 (amended): execute_tool of a registered name invokes the registered
\* tool and returns what the invoked method returned (raising if it raised);
\* the method is execute, unless the registry is in mock_mode and the tool
\* has execute_mock, and then it is execute_mock.
C5_DispatchByMode ==
    (lastOp.op = "execute_tool" /\ lastOp.name \in Names(tools)) =>
        /\ lastOp.tool = Lookup(tools, lastOp.name)
        /\ lastOp.method = IF tm_mock_mode /\ HasExecuteMock(lastOp.tool)
                           THEN "execute_mock" ELSE "execute"
        /\ lastOp.result = lastOp.returned

C5_Witness ==
    /\ lastOp.op = "execute_tool"
    /\ lastOp.name \in Names(tools)
    /\ tm_mock_mode
    /\ lastOp.method = "execute_mock"
    /\ lastOp.result # <<>>

\* C6 (as claimed): execute_tool of an unregistered name does not raise and
\* returns the "not found" string that names the tool.
C6_AlwaysNotFound ==
    (lastOp.op = "execute_tool" /\ lastOp.name \notin Names(tools)) =>
        /\ ~lastOp.raised
        /\ lastOp.result = <<"Tool '", lastOp.name, "' not found">>

\* C6 (amended): execute_tool of an unregistered name does not raise; it
\* returns the "not found" string that names the tool, except for the name
\* "search_courses" in a mock_mode registry, where it returns the mock
\* search's completion string.
C6_NotFoundOrMockSearch ==
    (lastOp.op = "execute_tool" /\ lastOp.name \notin Names(tools)) =>
        /\ ~lastOp.raised
        /\ IF tm_mock_mode /\ lastOp.name = "search_courses"
           THEN /\ lastOp.method = "_execute_mock_search"
                /\ lastOp.result = <<"Mock search completed for: ", lastOp.kwargs.query>>
           ELSE /\ lastOp.method = "none"
                /\ lastOp.result = <<"Tool '", lastOp.name, "' not found">>

C6_Witness ==
    /\ lastOp.op = "execute_tool"
    /\ lastOp.name \notin Names(tools)
    /\ lastOp.name = "search_course_content"
    /\ tm_mock_mode
    /\ tools # <<>>
    /\ lastOp.result = <<"Tool '", "search_course_content", "' not found">>

\* C7: register_tool of a tool whose definition has no name (no key, or an
\* empty string) raises and leaves the registry as it was.
C7_NamelessRegistrationFails ==
    [][(lastOp'.op = "register_tool"
        /\ FalsyStr(Get(get_tool_definition(lastOp'.tool), "name", None)))
       => (lastOp'.raised /\ tools' = tools)]_vars

C7_Witness ==
    /\ lastOp.op = "register_tool"
    /\ lastOp.tool = "anon"
    /\ lastOp.raised
    /\ Len(tools) = 2

\* C8 (as claimed): after a query, the list get_last_sources returns was
\* written by a tool execution of that query.
C8_SourcesOfThisQuery ==
    \A p \in Procs :
        gen[p].pc = "returned" => \A t \in SourceHolders : srcBy[t] = p

\* C8 (amended): after a query that the caller started right after
\* reset_sources, the list get_last_sources returns was written by a tool
\* execution of that query.
C8_SourcesOfThisQueryAfterReset ==
    \A p \in Procs :
        (gen[p].pc = "returned" /\ gen[p].reset) => \A t \in SourceHolders : srcBy[t] = p

C8_Witness ==
    \E p \in Procs :
        /\ gen[p].pc = "returned"
        /\ gen[p].reset
        /\ get_last_sources(tools, last_sources) # <<>>
        /\ \E t \in Instances : t \notin Registered(tools) /\ last_sources[t] # <<>>

\* C9: after a query started right after reset_sources in which no tool
\* execution stored sources, get_last_sources returns the empty list.
C9_NoHitsNoSources ==
    \A p \in Procs :
        (gen[p].pc = "returned" /\ gen[p].reset /\ ~gen[p].wrote) =>
            get_last_sources(tools, last_sources) = <<>>

C9_Witness ==
    \E p \in Procs :
        /\ gen[p].pc = "returned"
        /\ gen[p].reset
        /\ ~gen[p].wrote
        /\ Len(gen[p].calls) = 2
        /\ \E k \in DOMAIN gen[p].tool_results :
              gen[p].tool_results[k].content[1] = "No relevant content found"

\* C10 (as claimed): from reset_sources until the next tool execution,
\* get_last_sources returns the empty list.
C10_EmptyUntilExecution ==
    afterReset # "no" => get_last_sources(tools, last_sources) = <<>>

\* C10 (amended): from reset_sources until the next tool execution or tool
\* registration, every registered tool with last_sources holds the empty
\* list and get_last_sources returns the empty list.
C10_EmptyUntilExecutionOrRegistration ==
    afterReset = "clean" =>
        /\ \A t \in Registered(tools) : HasLastSources(t) => last_sources[t] = <<>>
        /\ get_last_sources(tools, last_sources) = <<>>

C10_Witness ==
    /\ afterReset = "clean"
    /\ lastOp.op = "reset_sources"
    /\ lastOp.cleared = {"cs", "aux"}
    /\ tools[1].tool = "aux"

\* The source list of the first instance of order that holds a non-empty
\* one, and the empty list when none does
FirstNonEmpty(order) ==
    LET holders == {i \in DOMAIN order :
                       HasLastSources(order[i]) /\ last_sources[order[i]] # <<>>}
    IN  IF holders = {} THEN <<>>
        ELSE last_sources[order[CHOOSE i \in holders : \A j \in holders : i <= j]]

\* C11 (as claimed): get_last_sources returns the list of the first tool, in
\* the order the tools were registered, that holds a non-empty list, and the
\* empty list when no registered tool holds one.
C11_FirstRegisteredHolder ==
    get_last_sources(tools, last_sources) = FirstNonEmpty(regOrder)

\* C11 (amended): get_last_sources returns the list of the first tool, in the
\* order of the registry's names (a tool registered under a name that is
\* taken stands where the tool it replaces stood), that holds a non-empty
\* list, and the empty list when no registered tool holds one; the lists of
\* several holders are not merged.
C11_FirstHolderInRegistry ==
    get_last_sources(tools, last_sources) = FirstNonEmpty([i \in DOMAIN tools |-> tools[i].tool])

C11_Witness ==
    /\ Len(tools) = 2
    /\ tools[1].tool = "cs" /\ tools[2].tool = "aux"
    /\ regOrder = <<"aux", "cs">>
    /\ last_sources["cs"] # <<>> /\ last_sources["aux"] # <<>>
    /\ get_last_sources(tools, last_sources) = last_sources["cs"]

\* The last ToolManager call ran CourseSearchTool.execute, and self.store.search
\* returned r to it
Searched(r) ==
    /\ lastOp.op = "execute_tool"
    /\ lastOp.method = "execute"
    /\ lastOp.tool \in SearchToolInstances
    /\ lastOp.searched = <<r>>

\* r carries hits and no error: execute returns them formatted
HasHits(r) == FalsyStr(r.error) /\ r.documents # <<>>

\* C12: when the most recent execute returned formatted hits, the tool's
\* last_sources is the list of the source records of that call's hits, one
\* per hit, whatever the list was before the call.
C12_SourcesOverwritten ==
    \A r \in SearchResults :
        (Searched(r) /\ HasHits(r)) =>
            /\ Len(last_sources[lastOp.tool]) = Len(r.documents)
            /\ last_sources[lastOp.tool] = [i \in DOMAIN r.documents |-> SourceData(r.metadata[i])]

C12_Witness ==
    \E r \in SearchResults :
        /\ Searched(r) /\ HasHits(r)
        /\ Len(r.documents) = 1
        /\ lastOp.before = 2

\* C13: for n >= 1 hits execute returns n blocks "[header]\ndocument" in hit
\* order joined by a blank line, and last_sources holds n records in the same
\* order, the i-th one's text being the i-th header without its brackets.
C13_BlocksAndSourcesParallel ==
    \A r \in SearchResults :
        (Searched(r) /\ HasHits(r)) =>
            LET sources == last_sources[lastOp.tool]
            IN  /\ Len(sources) = Len(r.documents)
                /\ lastOp.returned =
                      Join([i \in DOMAIN r.documents |->
                               <<"[">> \o sources[i].text \o <<"]", "\n", r.documents[i]>>],
                           <<"\n\n">>)

C13_Witness ==
    \E r \in SearchResults :
        /\ Searched(r) /\ HasHits(r)
        /\ Len(r.documents) = 2
        /\ last_sources[lastOp.tool][1].text # last_sources[lastOp.tool][2].text
        /\ Contains(<<"\n\n">>, lastOp.returned)

\* C14: for a hit whose metadata has no lesson number the block's header is
\* "[<course title>]", the hit's source record has no link, and
\* get_lesson_link is not called for it.
C14_NoLessonNoLink ==
    \A r \in SearchResults :
        (Searched(r) /\ HasHits(r)) =>
            \A i \in DOMAIN r.metadata :
                "lesson_number" \notin DOMAIN r.metadata[i] =>
                    /\ Contains(<<"[", Get(r.metadata[i], "course_title", "unknown"), "]", "\n",
                                  r.documents[i]>>, lastOp.returned)
                    /\ last_sources[lastOp.tool][i].text = <<Get(r.metadata[i], "course_title", "unknown")>>
                    /\ last_sources[lastOp.tool][i].url = None
                    /\ i \notin format_results(r).lookups

C14_Witness ==
    \E r \in SearchResults :
        /\ Searched(r) /\ HasHits(r)
        /\ Len(r.metadata) = 2
        /\ "lesson_number" \notin DOMAIN r.metadata[2]
        /\ format_results(r).lookups = {1}
        /\ last_sources[lastOp.tool][1].url # None

\* C15: when the result of self.store.search carries an error, execute does
\* not raise and returns that error string as it is, with or without
\* documents beside it and whatever the filters.
C15_ErrorVerbatim ==
    \A r \in SearchResults :
        (Searched(r) /\ ~FalsyStr(r.error)) =>
            /\ ~lastOp.raised
            /\ lastOp.returned = <<r.error>>
            /\ lastOp.result = <<r.error>>

C15_Witness ==
    \E r \in SearchResults :
        /\ Searched(r)
        /\ ~FalsyStr(r.error)
        /\ r.documents # <<>>
        /\ "lesson_number" \in DOMAIN lastOp.kwargs
        /\ lastOp.returned = <<"Search error">>

\* C16 (as claimed): on an empty result without error, execute returns the
\* "no content found" message naming the course filter whenever a course
\* name was passed and the lesson filter whenever a lesson number was passed.
C16_NamesEveryFilter ==
    \A r \in SearchResults :
        (Searched(r) /\ FalsyStr(r.error) /\ r.documents = <<>>) =>
            lastOp.returned =
                <<"No relevant content found">>
                \o (IF "course_name" \in DOMAIN lastOp.kwargs
                    THEN <<" in course '", lastOp.kwargs.course_name, "'">> ELSE <<>>)
                \o (IF "lesson_number" \in DOMAIN lastOp.kwargs
                    THEN <<" in lesson ", Str(lastOp.kwargs.lesson_number)>> ELSE <<>>)
                \o <<".">>

\* The categories of self.query_patterns in table order, and a category's keywords
PatternOrder == <<"outline", "chatbot", "rag", "lesson">>
KeywordsOf(pattern_type) ==
    query_patterns[CHOOSE i \in DOMAIN query_patterns :
                      query_patterns[i].pattern_type = pattern_type].keywords

\* The categories, by their place in the table, with a keyword in the lower-cased query
Matching(query) ==
    {i \in DOMAIN PatternOrder : AnyKeywordIn(KeywordsOf(PatternOrder[i]), Lower(query))}

\* C17: in mock mode the text returned is a canned response of the first
\* category, in the order outline, chatbot, rag, lesson, that has a keyword in
\* the lower-cased query, and the fallback text exactly when none has one.
C17_FirstMatchingCategory ==
    \A p \in Procs :
        (gen_mock_mode /\ gen[p].pc = "returned") =>
            LET m == Matching(gen[p].query)
            IN  IF m = {} THEN gen[p].answer = <<"default">>
                ELSE /\ gen[p].answer # <<"default">>
                     /\ gen[p].answer[1] = PatternOrder[CHOOSE i \in m : \A j \in m : i <= j]

C17_Witness ==
    \E p \in Procs :
        /\ gen_mock_mode /\ gen[p].pc = "returned"
        /\ Cardinality(Matching(gen[p].query)) = 2
        /\ gen[p].query # Lower(gen[p].query)
        /\ gen[p].answer[1] = "outline"

\* C18: in mock mode the MCP outline is returned exactly for the queries that
\* match the outline category and contain "mcp" in lower case, and the
\* generic outline exactly for those that match it and do not.
C18_OutlineVariants ==
    \A p \in Procs :
        (gen_mock_mode /\ gen[p].pc = "returned") =>
            LET outline == AnyKeywordIn(KeywordsOf("outline"), Lower(gen[p].query))
                mcp == Contains(<<"m", "c", "p">>, Lower(gen[p].query))
            IN  /\ gen[p].answer = <<"outline", "MCP">> <=> (outline /\ mcp)
                /\ gen[p].answer = <<"outline", "default">> <=> (outline /\ ~mcp)

C18_Witness ==
    \E p \in Procs :
        /\ gen_mock_mode /\ gen[p].pc = "returned"
        /\ gen[p].answer = <<"outline", "MCP">>
        /\ Contains(<<"M", "C", "P">>, gen[p].query)

\* C19: in mock mode generate_response returns a text that depends on the
\* query alone: the same with no tool_manager, with one whose execute_tool
\* returns and with one whose execute_tool raises; nothing is raised.
C19_TextIgnoresTheSearch ==
    \A p \in Procs :
        (gen_mock_mode /\ gen[p].pc = "returned") =>
            /\ gen[p].outcome = "text"
            /\ gen[p].raisedIn = "none"
            /\ gen[p].answer = MockResponseFrom(1, Lower(gen[p].query))

C19_Witness ==
    \E p \in Procs :
        /\ gen_mock_mode /\ gen[p].pc = "returned"
        /\ gen[p].tm
        /\ lastOp.op = "execute_tool" /\ lastOp.raised
        /\ gen[p].outcome = "text"
        /\ gen[p].answer = <<"rag">>

\* C20 (as claimed): in mock mode, after a query with a trigger keyword and a
\* tool_manager in which a CourseSearchTool is registered, the simulated
\* search has written that tool's last_sources and get_last_sources returns
\* a non-empty list.
C20_MockPopulatesSources ==
    \A p \in Procs :
        (/\ gen_mock_mode /\ gen[p].pc = "returned"
         /\ gen[p].tm
         /\ AnyKeywordIn(trigger_keywords, Lower(gen[p].query))
         /\ SearchToolInstances \cap Registered(tools) # {}) =>
            /\ \A t \in SearchToolInstances \cap Registered(tools) : last_sources[t] # <<>>
            /\ get_last_sources(tools, last_sources) # <<>>

\* C21 (as claimed): the simulation is a function of its input: in mock mode
\* the answer is the canned text of the query, and two runs of a simulated
\* search (execute_mock, _execute_mock_search) from one registry state with
\* one tool name and one argument mapping return the same text and leave the
\* same last_sources.
C21_SimulationDeterministic ==
    /\ \A p \in Procs :
          (gen_mock_mode /\ gen[p].pc = "returned") => gen[p].answer = mock_response_text(gen[p].query)
    /\ \A name \in CalledNames, kwargs \in CalledArgs :
          \A o1, o2 \in execute_tool(tools, tm_mock_mode, last_sources, name, kwargs) :
              (o1.method \in {"execute_mock", "_execute_mock_search"} /\ o2.method = o1.method) =>
                  /\ o1.result = o2.result
                  /\ o1.last_sources = o2.last_sources

\* The text blocks of a response's content
TextBlocks(content) == SelectSeq(content, LAMBDA b : b.type = "text")

\* C22 (as claimed): after a first response with stop_reason tool_use and no
\* tool_manager, generate_response has executed no tool and issued no
\* follow-up call, and it has returned the text of the response's text block
\* whenever the response holds one, wherever it stands.
C22_NoExecutorReturnsText ==
    \A p \in Procs :
        (/\ ~gen_mock_mode /\ gen[p].pc = "returned"
         /\ gen[p].resp.stop_reason = "tool_use"
         /\ ~gen[p].tm) =>
            /\ gen[p].execs = <<>>
            /\ Len(gen[p].calls) = 1
            /\ TextBlocks(gen[p].resp.content) # <<>> =>
                  /\ gen[p].outcome = "text"
                  /\ gen[p].answer = <<TextBlocks(gen[p].resp.content)[1].text>>

\* C23: the text generate_response returns is the text of the first content
\* block of the final model call: the first call without a tool round, the
\* follow-up call after one; it is never a tool result.
C23_TextOfFinalCall ==
    \A p \in Procs :
        (~gen_mock_mode /\ gen[p].pc = "returned" /\ gen[p].outcome = "text") =>
            /\ IF Len(gen[p].calls) = 2
               THEN /\ gen[p].head2 # <<>>
                    /\ gen[p].head2[1].type = "text"
                    /\ gen[p].answer = <<gen[p].head2[1].text>>
               ELSE /\ Len(gen[p].calls) = 1
                    /\ gen[p].execs = <<>>
                    /\ gen[p].resp.content[1].type = "text"
                    /\ gen[p].answer = <<gen[p].resp.content[1].text>>
            /\ \A k \in DOMAIN gen[p].tool_results : gen[p].answer # gen[p].tool_results[k].content

C23_Witness ==
    \E p \in Procs :
        /\ ~gen_mock_mode /\ gen[p].pc = "returned" /\ gen[p].outcome = "text"
        /\ Len(gen[p].calls) = 2
        /\ gen[p].tool_results # <<>>
        /\ gen[p].resp.content[1].type = "text"
        /\ gen[p].answer # <<gen[p].resp.content[1].text>>

\* C24: a model call that failed ends the query with its exception: the
\* failed call was the last call (a failed first call is the only call and no
\* tool ran, a failed follow-up call is the second call), and from then on the
\* query issues no call and runs no tool.
C24_FailedCallEndsQuery ==
    /\ [](\A p \in Procs :
            gen[p].raisedIn = "model" =>
                /\ gen[p].pc = "returned" /\ gen[p].outcome = "raised"
                /\ IF gen[p].resp = CallFailed
                   THEN Len(gen[p].calls) = 1 /\ gen[p].execs = <<>> /\ gen[p].stop2 = "none"
                   ELSE Len(gen[p].calls) = 2 /\ gen[p].stop2 = "raised")
    /\ [][\A p \in Procs :
            gen[p].raisedIn = "model" =>
                /\ gen'[p] \in {gen[p], IdleGen}
                /\ last_sources' = last_sources]_vars

C24_Witness ==
    \E p \in Procs :
        /\ gen[p].raisedIn = "model"
        /\ gen[p].stop2 = "raised"
        /\ Len(gen[p].execs) = 2

\* The names of a list of declarations are pairwise different
UniqueNames(defs) ==
    \A i, j \in DOMAIN defs : defs[i].name = defs[j].name => i = j

\* C25 (as claimed): get_tool_definitions returns the declarations of the
\* registered tools in the order the tools were registered, with pairwise
\* different names.
C25_InRegistrationOrder ==
    /\ get_tool_definitions(tools) = [i \in DOMAIN regOrder |-> get_tool_definition(regOrder[i])]
    /\ UniqueNames(get_tool_definitions(tools))

\* C25 (amended): get_tool_definitions returns one declaration per registered
\* tool with pairwise different names, in the order in which the names were
\* first registered: a failing register_tool leaves the list as it was, one
\* under a new name appends the tool's declaration, and one under a name that
\* is taken puts the tool's declaration where that name's declaration stood.
C25_InNameOrder ==
    /\ [](/\ UniqueNames(get_tool_definitions(tools))
          /\ Len(get_tool_definitions(tools)) = Cardinality(Registered(tools))
          /\ \A i \in DOMAIN tools : get_tool_definitions(tools)[i].name = tools[i].name)
    /\ [][lastOp'.op = "register_tool" =>
            LET d == get_tool_definition(lastOp'.tool)
                old == get_tool_definitions(tools)
                new == get_tool_definitions(tools')
            IN  IF lastOp'.raised THEN new = old
                ELSE IF \E i \in DOMAIN old : old[i].name = d.name
                THEN /\ Len(new) = Len(old)
                     /\ \A i \in DOMAIN old :
                           new[i] = IF old[i].name = d.name THEN d ELSE old[i]
                ELSE new = Append(old, d)]_vars

C25_Witness ==
    /\ lastOp.op = "register_tool"
    /\ lastOp.tool = "cs"
    /\ ~lastOp.raised
    /\ regOrder = <<"aux", "cs">>
    /\ get_tool_definitions(tools) = <<get_tool_definition("cs"), get_tool_definition("aux")>>

\* The ids of the tool_use blocks among the first n blocks of a content
IdsUpTo(content, n) ==
    LET blocks == ToolUseBlocks(SubSeq(content, 1, Min(n, Len(content))))
    IN  [k \in DOMAIN blocks |-> blocks[k].id]

\* C27: in a tool round execute_tool is called for the tool_use blocks of the
\* first response only, once each and in their order, with the block's name
\* and input: for all of them once the follow-up call is issued, and for none
\* after it.
C27_OncePerBlockInOrder ==
    /\ [](\A p \in Procs :
            ~gen_mock_mode =>
                LET g == gen[p]
                IN  /\ g.pc = "handling" => g.execs = IdsUpTo(g.resp.content, g.i - 1)
                    /\ g.raisedIn = "tool" =>
                          /\ g.i \in DOMAIN g.resp.content
                          /\ g.resp.content[g.i].type = "tool_use"
                          /\ g.execs = IdsUpTo(g.resp.content, g.i)
                    /\ Len(g.calls) = 2 => g.execs = IdsUpTo(g.resp.content, Len(g.resp.content))
                    /\ g.execs # <<>> => HandlesToolUse(g.resp, g.tm)
                    /\ (lastOp.op = "execute_tool" /\ g.pc # "idle") =>
                          LET at == IF lastOp.raised THEN g.i ELSE g.i - 1
                          IN  /\ at \in DOMAIN g.resp.content
                              /\ g.resp.content[at].type = "tool_use"
                              /\ lastOp.name = g.resp.content[at].name
                              /\ lastOp.kwargs = g.resp.content[at].input
                              /\ Len(g.calls) = 1)
    /\ [][\A p \in Procs :
            (~gen_mock_mode /\ Len(gen[p].calls) = 2) =>
                /\ gen'[p] = IdleGen \/ gen'[p].execs = gen[p].execs
                /\ last_sources' = last_sources]_vars

C27_Witness ==
    \E p \in Procs :
        /\ Len(gen[p].calls) = 2
        /\ Len(gen[p].resp.content) = 3
        /\ gen[p].resp.content[2].type = "text"
        /\ gen[p].execs = <<"toolu_A", "toolu_B">>

\* C28 (as claimed): the follow-up call has the system content of the first
\* call, and its messages are the user's query, the assistant message with
\* the first response's content, and one user message with the tool results.
C28_AlwaysThreeMessages ==
    \A p \in Procs :
        Len(gen[p].calls) = 2 =>
            /\ gen[p].calls[2].system = gen[p].calls[1].system
            /\ gen[p].calls[2].messages =
                  <<[role |-> "user", content |-> gen[p].query],
                    [role |-> "assistant", content |-> gen[p].resp.content],
                    [role |-> "user", content |-> gen[p].tool_results]>>

\* C28 (amended): the follow-up call has the system content of the first
\* call, and its messages are the user's query, the assistant message with
\* the first response's content and, when that content holds a tool_use
\* block, one user message with all the tool results; with no tool_use block
\* the assistant message is the last one.
C28_FollowUpMessages ==
    \A p \in Procs :
        Len(gen[p].calls) = 2 =>
            /\ gen[p].calls[2].system = gen[p].calls[1].system
            /\ Len(gen[p].tool_results) = Len(ToolUseBlocks(gen[p].resp.content))
            /\ gen[p].calls[2].messages =
                  <<[role |-> "user", content |-> gen[p].query],
                    [role |-> "assistant", content |-> gen[p].resp.content]>>
                  \o (IF ToolUseBlocks(gen[p].resp.content) # <<>>
                      THEN <<[role |-> "user", content |-> gen[p].tool_results]>>
                      ELSE <<>>)

C28_Witness ==
    \E p \in Procs :
        /\ Len(gen[p].calls) = 2
        /\ Len(gen[p].calls[2].system) = 3
        /\ Len(gen[p].calls[2].messages) = 3
        /\ Len(gen[p].calls[2].messages[3].content) = 2
        /\ Len(gen[p].calls[2].messages[2].content) = 3

\* Whether a hit has a lesson number and a known course title, and what
\* get_lesson_link answers for it
LessonOfKnownCourse(meta) ==
    "lesson_number" \in DOMAIN meta /\ Get(meta, "course_title", "unknown") # "unknown"
LinkOf(meta) == get_lesson_link(Get(meta, "course_title", "unknown"), Get(meta, "lesson_number", NoneInt))

\* C30 (as claimed): get_lesson_link is called for a hit exactly when it has
\* a lesson number and a known course title; the hit's link is the lookup's
\* result when that is a non-empty link, and empty otherwise, and empty for
\* the hits with lesson number 0.
C30_LessonZeroNoLink ==
    \A r \in SearchResults :
        (Searched(r) /\ HasHits(r)) =>
            \A i \in DOMAIN r.metadata :
                /\ i \in format_results(r).lookups <=> LessonOfKnownCourse(r.metadata[i])
                /\ last_sources[lastOp.tool][i].url =
                      IF /\ LessonOfKnownCourse(r.metadata[i])
                         /\ r.metadata[i].lesson_number # 0
                         /\ ~FalsyStr(LinkOf(r.metadata[i]))
                      THEN LinkOf(r.metadata[i]) ELSE None

\* C30 (amended): get_lesson_link is called for a hit exactly when it has a
\* lesson number, 0 included, and a known course title; the hit's link is the
\* lookup's result when that is a non-empty link, and empty otherwise.
C30_LinkFromLookup ==
    \A r \in SearchResults :
        (Searched(r) /\ HasHits(r)) =>
            \A i \in DOMAIN r.metadata :
                /\ i \in format_results(r).lookups <=> LessonOfKnownCourse(r.metadata[i])
                /\ last_sources[lastOp.tool][i].url =
                      IF LessonOfKnownCourse(r.metadata[i]) /\ ~FalsyStr(LinkOf(r.metadata[i]))
                      THEN LinkOf(r.metadata[i]) ELSE None

C30_Witness ==
    \E r \in SearchResults :
        /\ Searched(r) /\ HasHits(r)
        /\ Len(r.metadata) = 2
        /\ r.metadata[1] = [course_title |-> "Course 1", lesson_number |-> 0]
        /\ format_results(r).lookups = {1, 2}
        /\ last_sources[lastOp.tool][1].url = "https://example.com/c1/0"
        /\ last_sources[lastOp.tool][2].url = None

C29_AloneReadsItsOwn ==
    \A p \in Procs :
        (race[p].pc = "read" /\ ~race[p].overlapped) =>
            IF race[p].hits
            THEN race[p].got # <<>> /\ race[p].gotBy = {p}
            ELSE race[p].got = <<>>

C29_Witness ==
    \E p \in Procs :
        /\ race[p].pc = "read"
        /\ race[p].overlapped
        /\ race[p].hits
        /\ race[p].got # <<>>
        /\ race[p].gotBy = Procs \ {p}

\* The other outcome of the race: the empty list though the caller's own
\* retrieval had hits
C29_EmptyThoughHits ==
    \E p \in Procs :
        /\ race[p].pc = "read"
        /\ race[p].overlapped
        /\ race[p].hits
        /\ race[p].got = <<>>

\* The names of a registry, in dict order: the order of get_tool_definitions
\* and of the get_last_sources scan
NameOrder(reg) == [i \in DOMAIN reg |-> reg[i].name]

\* C31: register_tool of a tool whose name is taken does not raise; the
\* registry afterwards has as many entries, with the same names in the same
\* places, and the new instance in the place of the name, where
\* get_tool_definitions declares it; and every execute_tool of a registered
\* name runs the instance the registry holds under it, the one registered
\* last under that name.
C31_ReplacedInPlace ==
    /\ [](/\ (lastOp.op = "execute_tool" /\ lastOp.name \in Names(tools)) =>
                /\ lastOp.tool = Lookup(tools, lastOp.name)
                /\ lastOp.tool \in {regOrder[i] : i \in DOMAIN regOrder}
          /\ \A i, j \in DOMAIN tools : tools[i].name = tools[j].name => i = j)
    /\ [][(/\ lastOp'.op = "register_tool"
           /\ Get(get_tool_definition(lastOp'.tool), "name", None) \in Names(tools)) =>
            LET name == get_tool_definition(lastOp'.tool).name
            IN  /\ ~lastOp'.raised
                /\ Len(tools') = Len(tools)
                /\ NameOrder(tools') = NameOrder(tools)
                /\ Lookup(tools', name) = lastOp'.tool
                /\ \A i \in DOMAIN tools : tools[i].name # name => tools'[i] = tools[i]
                /\ get_tool_definitions(tools')[IndexOf(tools, name)]
                      = get_tool_definition(lastOp'.tool)
                /\ last_sources' = last_sources]_vars

C31_Witness ==
    /\ lastOp.op = "execute_tool"
    /\ lastOp.name = "search_course_content"
    /\ lastOp.tool = "cs"
    /\ lastOp.method = "execute"
    /\ Len(tools) = 2
    /\ tools[1].tool = "cs" /\ tools[2].tool = "aux"
    /\ regOrder = <<"aux", "cs">>

\* The ToolManager call recorded in op ran CourseSearchTool.execute, whose
\* search returned an error or no document
MissedSearch(op) ==
    /\ op.op = "execute_tool"
    /\ op.method = "execute"
    /\ op.tool \in SearchToolInstances
    /\ ~op.raised
    /\ op.searched # <<>>
    /\ \A k \in DOMAIN op.searched : ~HasHits(op.searched[k])

\* C32: an execute whose search returned an error or no document leaves the
\* last_sources of its tool, and of every other tool, as they were before
\* the call, so get_last_sources returns after it what it returned before
\* it: the records an earlier execution left, when there are any.
C32_MissKeepsSources ==
    /\ [](MissedSearch(lastOp) => Len(last_sources[lastOp.tool]) = lastOp.before)
    /\ [][MissedSearch(lastOp') =>
            /\ last_sources' = last_sources
            /\ get_last_sources(tools', last_sources')
                  = get_last_sources(tools, last_sources)]_vars

C32_Witness ==
    /\ MissedSearch(lastOp)
    /\ lastOp.searched[1].error = "Search error"
    /\ lastOp.before = 2
    /\ Len(tools) = 1
    /\ get_last_sources(tools, last_sources) = last_sources[lastOp.tool]
    /\ Len(get_last_sources(tools, last_sources)) = 2
    /\ afterReset = "no"

\* The first tool of a registry, in dict order, that has mock_sources
FirstMockHolders(reg) ==
    {reg[i].tool : i \in {i \in DOMAIN reg :
        /\ HasMockSources(reg[i].tool)
        /\ \A j \in DOMAIN reg : HasMockSources(reg[j].tool) => i <= j}}

\* C33 (as claimed): execute_tool of an unregistered name leaves the registry
\* and the last_sources of every registered tool as they were, in mock mode
\* or not, for every unregistered name, "search_courses" included.
C33_UnregisteredChangesNothing ==
    [][(lastOp'.op = "execute_tool" /\ lastOp'.name \notin Names(tools)) =>
         /\ tools' = tools
         /\ \A t \in Registered(tools) : last_sources'[t] = last_sources[t]]_vars

\* C33 (amended): execute_tool of an unregistered name leaves the registry
\* as it was; it leaves the last_sources of every tool as they were, except
\* for the name "search_courses" in a mock_mode registry: then the first
\* registered tool that has mock_sources, if there is one, holds the first
\* two mock records afterwards, and every other tool's last_sources are as
\* they were.
C33_UnregisteredWritesOnlyMockSearch ==
    [][(lastOp'.op = "execute_tool" /\ lastOp'.name \notin Names(tools)) =>
         /\ tools' = tools
         /\ ~lastOp'.raised
         /\ IF tm_mock_mode /\ lastOp'.name = "search_courses"
            THEN \A t \in Instances :
                    last_sources'[t] = IF t \in FirstMockHolders(tools)
                                       THEN SubSeq(mock_search_sources, 1, 2)
                                       ELSE last_sources[t]
            ELSE last_sources' = last_sources]_vars

C33_Witness ==
    /\ lastOp.op = "execute_tool"
    /\ lastOp.name = "search_courses"
    /\ lastOp.name \notin Names(tools)
    /\ lastOp.method = "_execute_mock_search"
    /\ tm_mock_mode /\ ~gen_mock_mode
    /\ "cs" \in Registered(tools)
    /\ last_sources["cs"] = mock_search_sources
    /\ get_last_sources(tools, last_sources) = mock_search_sources

====
